---------------------------- MODULE Spec2Model ----------------------------
(***************************************************************************)
(* A model of process_pdf.py: the rule-based PDF outline extractor          *)
(* (PDFOutlineExtractor) and the batch loop of main().                      *)
(*                                                                          *)
(* A string is a sequence of one-character strings, so that strip, split,   *)
(* the regular expressions and the length tests are computed on characters, *)
(* as the code computes them.  The character set is ASCII; Python's str     *)
(* methods and re module also know non-ASCII digits, letters and spaces,    *)
(* which no input of this model contains.                                   *)
(***************************************************************************)
EXTENDS Integers, Sequences, FiniteSets, TLC

----------------------------------------------------------------------------
(* Characters *)

Digit == {"0", "1", "2", "3", "4", "5", "6", "7", "8", "9"}

UpperSeq == << "A", "B", "C", "D", "E", "F", "G", "H", "I", "J", "K", "L", "M",
               "N", "O", "P", "Q", "R", "S", "T", "U", "V", "W", "X", "Y", "Z" >>

LowerSeq == << "a", "b", "c", "d", "e", "f", "g", "h", "i", "j", "k", "l", "m",
               "n", "o", "p", "q", "r", "s", "t", "u", "v", "w", "x", "y", "z" >>

Upper == {UpperSeq[i] : i \in DOMAIN UpperSeq}

Lower == {LowerSeq[i] : i \in DOMAIN LowerSeq}

\* What str.strip() removes and what \s matches (ASCII).
WS == {" ", "\t", "\n", "\r", "\f"}

\* What \w matches (ASCII).
WordCh == Digit \cup Upper \cup Lower \cup {"_"}

\* The case folding of re.IGNORECASE on ASCII letters.
ToLower(c) ==
    IF c \in Upper
    THEN LowerSeq[CHOOSE i \in DOMAIN UpperSeq : UpperSeq[i] = c]
    ELSE c

----------------------------------------------------------------------------
(* Strings *)

AllIn(s, S) == \A i \in DOMAIN s : s[i] \in S

\* s[a..b] are all in S (true of an empty range).
RangeIn(s, a, b, S) == \A i \in a..b : s[i] \in S

\* str.strip(): drop leading and trailing whitespace.
Strip(s) ==
    LET keep == {i \in DOMAIN s : s[i] \notin WS}
    IN  IF keep = {}
        THEN << >>
        ELSE LET lo == CHOOSE i \in keep : \A j \in keep : i <= j
                 hi == CHOOSE i \in keep : \A j \in keep : j <= i
             IN  SubSeq(s, lo, hi)

\* str.split(sep) for a one-character separator: always at least one piece.
RECURSIVE Split(_, _)
Split(s, sep) ==
    IF \A i \in DOMAIN s : s[i] # sep
    THEN << s >>
    ELSE LET k == CHOOSE i \in DOMAIN s :
                      s[i] = sep /\ \A j \in 1..(i - 1) : s[j] # sep
         IN  << SubSeq(s, 1, k - 1) >> \o Split(SubSeq(s, k + 1, Len(s)), sep)

\* str.endswith and the `in` test on strings.
EndsWith(s, p) == Len(s) >= Len(p) /\ SubSeq(s, Len(s) - Len(p) + 1, Len(s)) = p

Contains(s, p) ==
    \E i \in 1..(Len(s) - Len(p) + 1) : SubSeq(s, i, i + Len(p) - 1) = p

\* The first n characters of s, case-folded, are the word w (re.IGNORECASE).
StartsWithFolded(s, w) ==
    /\ Len(s) >= Len(w)
    /\ \A i \in DOMAIN w : ToLower(s[i]) = w[i]

----------------------------------------------------------------------------
(* The regular expressions of PDFOutlineExtractor.__init__, each as           *)
(* pattern.match(s): anchored at the start by ^ and by match().  Every string  *)
(* the code hands to a pattern has been stripped, so it does not end in a      *)
(* newline and `$` is the end of the string; `.` is any character but newline. *)

\* s[1..k] matches \d+(\.\d+)* : digit groups separated by single dots.
DigitGroups(s, k) ==
    /\ k >= 1
    /\ k <= Len(s)
    /\ s[1] \in Digit
    /\ s[k] \in Digit
    /\ RangeIn(s, 1, k, Digit \cup {"."})
    /\ \A i \in 1..(k - 1) : ~(s[i] = "." /\ s[i + 1] = ".")

\* num_pat: ^\d+(\.\d+)*[\.\s]+.+
num_pat(s) ==
    \E k \in 1..Len(s) : \E m \in (k + 1)..(Len(s) - 1) :
        /\ DigitGroups(s, k)
        /\ RangeIn(s, k + 1, m, {"."} \cup WS)
        /\ s[m + 1] # "\n"

\* up_pat: ^(?=.*[A-Z])[A-Z0-9. ]+$
up_pat(s) ==
    /\ Len(s) >= 1
    /\ AllIn(s, Upper \cup Digit \cup {".", " "})
    /\ \E i \in DOMAIN s : s[i] \in Upper

\* title_pat: ^[A-Z][a-zA-Z0-9 ,\-\:]{4,}$
title_pat(s) ==
    /\ Len(s) >= 5
    /\ s[1] \in Upper
    /\ RangeIn(s, 2, Len(s), Upper \cup Lower \cup Digit \cup {" ", ",", "-", ":"})

\* s[a..b] is a run of between lo and hi digits.
DigitRun(s, a, b, lo, hi) ==
    /\ b - a + 1 >= lo
    /\ b - a + 1 <= hi
    /\ RangeIn(s, a, b, Digit)

\* noise_patterns[0]: ^\d{1,2}[-/]\d{1,2}[-/]\d{2,4}$
noise_date_dmy(s) ==
    \E i \in DOMAIN s : \E j \in DOMAIN s :
        /\ i < j
        /\ s[i] \in {"-", "/"}
        /\ s[j] \in {"-", "/"}
        /\ DigitRun(s, 1, i - 1, 1, 2)
        /\ DigitRun(s, i + 1, j - 1, 1, 2)
        /\ DigitRun(s, j + 1, Len(s), 2, 4)

\* noise_patterns[1]: ^\d{4}[-/]\d{1,2}[-/]\d{1,2}$
noise_date_ymd(s) ==
    \E i \in DOMAIN s : \E j \in DOMAIN s :
        /\ i < j
        /\ s[i] \in {"-", "/"}
        /\ s[j] \in {"-", "/"}
        /\ DigitRun(s, 1, i - 1, 4, 4)
        /\ DigitRun(s, i + 1, j - 1, 1, 2)
        /\ DigitRun(s, j + 1, Len(s), 1, 2)

\* noise_patterns[2]: ^page\s+\d+$ with re.IGNORECASE
noise_page(s) ==
    /\ StartsWithFolded(s, << "p", "a", "g", "e" >>)
    /\ \E k \in 5..(Len(s) - 1) :
           /\ RangeIn(s, 5, k, WS)
           /\ RangeIn(s, k + 1, Len(s), Digit)

\* noise_patterns[3]: ^copyright.*$ with re.IGNORECASE
noise_copyright(s) ==
    /\ StartsWithFolded(s, << "c", "o", "p", "y", "r", "i", "g", "h", "t" >>)
    /\ \A i \in 10..Len(s) : s[i] # "\n"

\* noise_patterns[4]: ^\d+$
noise_digits(s) == Len(s) >= 1 /\ AllIn(s, Digit)

\* noise_patterns[5]: ^[^\w\s]+$
noise_punct(s) == Len(s) >= 1 /\ \A i \in DOMAIN s : s[i] \notin WordCh \cup WS

\* The two patterns compiled inline by determine_heading_level.
\* ^\d+\.\s+
level1_pat(s) ==
    \E k \in 1..(Len(s) - 2) :
        /\ RangeIn(s, 1, k, Digit)
        /\ s[k + 1] = "."
        /\ s[k + 2] \in WS

\* ^\d+\.\d+\s+
level2_pat(s) ==
    \E k \in 1..(Len(s) - 3) : \E m \in (k + 2)..(Len(s) - 1) :
        /\ RangeIn(s, 1, k, Digit)
        /\ s[k + 1] = "."
        /\ RangeIn(s, k + 2, m, Digit)
        /\ s[m + 1] \in WS

----------------------------------------------------------------------------
(* Optional values: None is the empty tuple, a present value v is << v >>.  *)

None == << >>

Some(v) == << v >>

\* Python truth of an Optional[str]: None and "" are both false.
Truthy(opt) == opt # None /\ opt[1] # << >>

----------------------------------------------------------------------------
(* The classification engine: is_noise, is_heading, determine_heading_level *)

is_noise(raw) ==
    LET line == Strip(raw)
    IN  \/ Len(line) < 3
        \/ noise_date_dmy(line)
        \/ noise_date_ymd(line)
        \/ noise_page(line)
        \/ noise_copyright(line)
        \/ noise_digits(line)
        \/ noise_punct(line)

\* The marker of line 134: ". This is the content for section:"
ContentMarker ==
    << ".", " ", "T", "h", "i", "s", " ", "i", "s", " ", "t", "h", "e", " ",
       "c", "o", "n", "t", "e", "n", "t", " ", "f", "o", "r", " ",
       "s", "e", "c", "t", "i", "o", "n", ":" >>

\* str.islower() counted over the characters of the line.
LowerCount(line) == Cardinality({i \in DOMAIN line : line[i] \in Lower})

\* c > n * 0.7 in IEEE double arithmetic, for the lengths 51..100 that reach the
\* test: n * 0.7 is the exact product except that 90 * 0.7 rounds below 63.
MostlyLower(c, n) == 10 * c > 7 * n \/ (n = 90 /\ c = 63)

\* line.endswith(('.', ',', ';', '!', '?')) and not line.endswith('...')
EndsSentence(line) ==
    /\ Len(line) >= 1
    /\ line[Len(line)] \in {".", ",", ";", "!", "?"}
    /\ ~EndsWith(line, << ".", ".", "." >>)

\* is_heading with the title test of line 126 left out.
is_heading_no_title_test(raw, detected_title) ==
    LET line == Strip(raw)
    IN  /\ ~is_noise(line)
        /\ Len(line) <= 100
        /\ ~Contains(line, ContentMarker)
        /\ ~(Len(line) > 50 /\ MostlyLower(LowerCount(line), Len(line)))
        /\ ~EndsSentence(line)
        /\ (num_pat(line) \/ up_pat(line) \/ title_pat(line))

\* is_heading with the noise test of line 122 left out.
is_heading_no_noise_test(raw, detected_title) ==
    LET line == Strip(raw)
    IN  /\ ~(Truthy(detected_title) /\ line = detected_title[1])
        /\ Len(line) <= 100
        /\ ~Contains(line, ContentMarker)
        /\ ~(Len(line) > 50 /\ MostlyLower(LowerCount(line), Len(line)))
        /\ ~EndsSentence(line)
        /\ (num_pat(line) \/ up_pat(line) \/ title_pat(line))

\* detected_title is self._detected_title as the call finds it.
is_heading(raw, detected_title) ==
    LET line == Strip(raw)
    IN  /\ ~is_noise(line)
        /\ ~(Truthy(detected_title) /\ line = detected_title[1])
        /\ Len(line) <= 100
        /\ ~Contains(line, ContentMarker)
        /\ ~(Len(line) > 50 /\ MostlyLower(LowerCount(line), Len(line)))
        /\ ~EndsSentence(line)
        /\ (num_pat(line) \/ (Len(line) <= 100 /\ up_pat(line)) \/ title_pat(line))

determine_heading_level(raw) ==
    LET line == Strip(raw)
    IN  IF level1_pat(line) \/ (Len(line) > 15 /\ up_pat(line))
        THEN "H1"
        ELSE IF \/ level2_pat(line)
                \/ (Len(line) <= 15 /\ up_pat(line))
                \/ title_pat(line)
             THEN "H2"
             ELSE "H3"

----------------------------------------------------------------------------
(* Title resolution and text extraction *)

\* The literal of line 103.
UntitledDocument ==
    << "U", "n", "t", "i", "t", "l", "e", "d", " ", "D", "o", "c", "u",
       "m", "e", "n", "t" >>

\* enumerate(pages, 1): each page text with its 1-based number.
NumberPages(texts) == [i \in DOMAIN texts |-> << texts[i], i >>]

\* `if text.strip()`: the page holds something besides whitespace.
NonBlank(page) == Strip(page[1]) # << >>

\* d.pypdf2.ok is false when opening or reading the file raises.
extract_text_pypdf2(d) ==
    IF d.pypdf2.ok
    THEN SelectSeq(NumberPages(d.pypdf2.pages), NonBlank)
    ELSE << >>

\* d.pdfminer.text is the whole text, pages separated by form feeds.
extract_text_pdfminer(d) ==
    IF d.pdfminer.ok
    THEN SelectSeq(NumberPages(Split(d.pdfminer.text, "\f")), NonBlank)
    ELSE << >>

extract_title_from_metadata(d) ==
    IF d.meta.ok /\ Truthy(d.meta.title)
    THEN LET t == Strip(d.meta.title[1])
         IN  IF t # << >> /\ Len(t) > 2 THEN Some(t) ELSE None
    ELSE None

\* The first line of `lines`, stripped, that line 100 accepts; None if none.
RECURSIVE FirstTitleLine(_)
FirstTitleLine(lines) ==
    IF lines = << >>
    THEN None
    ELSE LET line == Strip(Head(lines))
         IN  IF line # << >> /\ Len(line) > 3 /\ ~is_noise(line)
             THEN Some(line)
             ELSE FirstTitleLine(Tail(lines))

\* extract_title_from_content that looks at the first page only.
extract_title_first_page_only(pages_text) ==
    IF pages_text = << >>
    THEN UntitledDocument
    ELSE LET found == FirstTitleLine(Split(Head(pages_text)[1], "\n"))
         IN  IF found # None THEN found[1] ELSE UntitledDocument

RECURSIVE extract_title_from_content(_)
extract_title_from_content(pages_text) ==
    IF pages_text = << >>
    THEN UntitledDocument
    ELSE LET found == FirstTitleLine(Split(Head(pages_text)[1], "\n"))
         IN  IF found # None
             THEN found[1]
             ELSE extract_title_from_content(Tail(pages_text))

\* Lines 207-209 of extract_outline.
resolve_title(d, pages_text) ==
    LET title == extract_title_from_metadata(d)
    IN  IF ~Truthy(title) THEN extract_title_from_content(pages_text) ELSE title[1]

----------------------------------------------------------------------------
(* Inputs: lines, page texts and documents *)

\* "A Study of Outlines"
L_Study ==
    << "A", " ", "S", "t", "u", "d", "y", " ", "o", "f", " ", "O", "u",
       "t", "l", "i", "n", "e", "s" >>

\* "1. Introduction"
L_Intro ==
    << "1", ".", " ", "I", "n", "t", "r", "o", "d", "u", "c", "t", "i",
       "o", "n" >>

\* "2.1 Methodology"
L_Method ==
    << "2", ".", "1", " ", "M", "e", "t", "h", "o", "d", "o", "l", "o",
       "g", "y" >>

\* "2.1 RESULTS AND DISCUSSION"
L_Results ==
    << "2", ".", "1", " ", "R", "E", "S", "U", "L", "T", "S", " ", "A",
       "N", "D", " ", "D", "I", "S", "C", "U", "S", "S", "I", "O", "N" >>

\* "BACKGROUND"
L_Background ==
    << "B", "A", "C", "K", "G", "R", "O", "U", "N", "D" >>

\* "  BACKGROUND\t"
L_PaddedBackground ==
    << " ", " ", "B", "A", "C", "K", "G", "R", "O", "U", "N", "D", "\t" >>

\* "Experimental Setup"
L_Setup ==
    << "E", "x", "p", "e", "r", "i", "m", "e", "n", "t", "a", "l", " ",
       "S", "e", "t", "u", "p" >>

\* "1.1.1 Detail"
L_Detail ==
    << "1", ".", "1", ".", "1", " ", "D", "e", "t", "a", "i", "l" >>

\* "Page 12"
L_Page12 ==
    << "P", "a", "g", "e", " ", "1", "2" >>

\* "This sentence is prose."
L_Prose ==
    << "T", "h", "i", "s", " ", "s", "e", "n", "t", "e", "n", "c", "e",
       " ", "i", "s", " ", "p", "r", "o", "s", "e", "." >>

\* "ABC"
L_ABC ==
    << "A", "B", "C" >>

\* " Experimental Setup  "
L_PaddedSetup ==
    << " ", "E", "x", "p", "e", "r", "i", "m", "e", "n", "t", "a", "l",
       " ", "S", "e", "t", "u", "p", " ", " " >>

\* " ab ": four characters, two once trimmed
L_Short ==
    << " ", "a", "b", " " >>

\* n copies of the character c.
Rep(c, n) == [i \in 1..n |-> c]

\* 90 characters, 63 of them lowercase: the length at which 0.7 * n rounds down.
L_Lower63of90 == << "A" >> \o Rep("a", 63) \o Rep(" ", 25) \o << "B" >>

\* 60 characters, 42 of them lowercase: exactly 70 per cent, not more.
L_Lower42of60 == << "A" >> \o Rep("a", 42) \o Rep(" ", 16) \o << "B" >>

\* 60 characters, 43 of them lowercase.
L_Lower43of60 == << "A" >> \o Rep("a", 43) \o Rep(" ", 15) \o << "B" >>

\* 101 and 100 uppercase characters.
L_Caps101 == Rep("A", 101)

L_Caps100 == Rep("A", 100)

\* A heading-like line that holds the marker of line 134.
L_Marker == << "S", "e", "c", "t", "i", "o", "n", " ", "1" >> \o ContentMarker

\* The text of a page: its lines joined by newlines.
RECURSIVE JoinLines(_)
JoinLines(lines) ==
    IF lines = << >> THEN << >>
    ELSE IF Len(lines) = 1 THEN lines[1]
    ELSE lines[1] \o << "\n" >> \o JoinLines(Tail(lines))

\* The text pdfminer returns: the pages joined by form feeds.
RECURSIVE JoinPages(_)
JoinPages(texts) ==
    IF texts = << >> THEN << >>
    ELSE IF Len(texts) = 1 THEN texts[1]
    ELSE texts[1] \o << "\f" >> \o JoinPages(Tail(texts))

\* A document as its three collaborators see it: PyPDF2's page texts,
\* pdfminer's whole text, and the metadata title; ok is false where the
\* collaborator raises.
Document(pypdf2_ok, pages, pdfminer_ok, text, meta_ok, meta_title) ==
    [pypdf2   |-> [ok |-> pypdf2_ok, pages |-> pages],
     pdfminer |-> [ok |-> pdfminer_ok, text |-> text],
     meta     |-> [ok |-> meta_ok, title |-> meta_title]]

\* A document PyPDF2 reads, with the same pages for pdfminer.
Readable(pages, meta_title) ==
    Document(TRUE, pages, TRUE, JoinPages(pages), TRUE, meta_title)

\* Title from content; page 2 is blank and dropped; the title line recurs on page 3.
DocStudy ==
    Readable(<< JoinLines(<< L_Study, L_Intro, L_Page12 >>),
                JoinLines(<< << >>, << " " >> >>),
                JoinLines(<< L_PaddedBackground, L_Study, L_Method >>) >>, None)

\* Title from metadata, padded; the same line is the first of the content.
DocSetup ==
    Readable(<< JoinLines(<< L_Setup, L_Results >>),
                JoinLines(<< L_Detail, L_Prose, L_PaddedSetup >>) >>,
             Some(L_PaddedSetup))

\* PyPDF2 raises; pdfminer yields two pages.  The metadata read raises too.
DocFallback ==
    Document(FALSE, << >>, TRUE,
             JoinPages(<< JoinLines(<< L_Background, L_Page12 >>),
                          JoinLines(<< L_ABC, L_Intro >>) >>),
             FALSE, None)

\* PyPDF2 finds only blank pages and pdfminer only whitespace.
DocBlank ==
    Document(TRUE, << << " ", "\n" >>, << >> >>, TRUE, << "\f", " ", "\n" >>,
             TRUE, Some(L_Study))

\* PyPDF2 finds no page and pdfminer raises.
DocUnreadable ==
    Document(TRUE, << >>, FALSE, << >>, TRUE, None)

\* No line is long enough for a title; the metadata title is too short.
DocUntitled ==
    Readable(<< JoinLines(<< L_Page12, L_ABC >>) >>, Some(L_Short))

\* Its title is a heading of DocStudy, and DocStudy's title is a heading here.
DocIntro ==
    Readable(<< JoinLines(<< L_Intro, L_Study, L_Background >>) >>, None)

\* The title is a line of prose, which is no heading; it recurs on page 2.
DocProse ==
    Readable(<< JoinLines(<< L_Page12, L_Prose, L_Intro >>),
                JoinLines(<< L_Prose, L_Setup >>) >>, None)

\* Lines at the length and lowercase-ratio limits of is_heading.
DocLimits ==
    Readable(<< JoinLines(<< L_Lower63of90, L_Lower42of60, L_Lower43of60 >>),
                JoinLines(<< L_Caps101, L_Caps100, L_Marker >>) >>,
             Some(L_Intro))

CuratedDocs ==
    { DocStudy, DocSetup, DocFallback, DocBlank, DocUnreadable, DocUntitled,
      DocIntro, DocProse, DocLimits }

\* Every sequence over S of length lo..hi.
SeqsOf(S, lo, hi) == UNION {[1..k -> S] : k \in lo..hi}

\* The bounds of the model.
MaxDocs == 3

MaxPages == 2

MaxLen == 4

\* Generated documents: every page of two lines drawn from LinePool, up to
\* MaxPages pages, without or with a metadata title that is also a line.
LinePool == { << >>, L_Page12, L_Intro, L_Study }

GeneratedPages == {JoinLines(<< a, b >>) : a \in LinePool, b \in LinePool}

GeneratedDocs ==
    {Readable(pages, meta_title) :
        pages \in SeqsOf(GeneratedPages, 1, MaxPages),
        meta_title \in {None, Some(L_Study)}}

\* The documents of the batches of several files.
BatchDocs == { DocStudy, DocIntro, DocSetup, DocFallback, DocBlank }

\* The batches main() may find in the input directory.
Batches ==
    SeqsOf(BatchDocs, 0, MaxDocs)
        \cup {<< d >> : d \in CuratedDocs \cup GeneratedDocs}

\* The lines handed to the classification functions one at a time: every
\* string of up to MaxLen characters over six kinds of character, and the
\* longer lines above.
LineAlphabet == {"1", ".", " ", "A", "a", "-"}

\* "12/31/2024"
L_DateDMY == << "1", "2", "/", "3", "1", "/", "2", "0", "2", "4" >>

\* "2024-01-05"
L_DateYMD == << "2", "0", "2", "4", "-", "0", "1", "-", "0", "5" >>

\* "COPYRIGHT 2024"
L_Copyright ==
    << "C", "O", "P", "Y", "R", "I", "G", "H", "T", " ", "2", "0", "2", "4" >>

LongLines ==
    { L_Study, L_Intro, L_Method, L_Results, L_Background, L_PaddedBackground,
      L_Setup, L_Detail, L_Page12, L_Prose, L_Lower63of90, L_Lower42of60,
      L_Lower43of60, L_Caps101, L_Caps100, L_Marker, L_DateDMY, L_DateYMD,
      L_Copyright }

ProbeLines == SeqsOf(LineAlphabet, 0, MaxLen) \cup LongLines

----------------------------------------------------------------------------
(* State *)

\* Two callers of extract_outline.  main() is caller 1; caller 2 exists only
\* where two runs share one extractor.
Threads == {1, 2}

VARIABLES
    pdf_files,        \* main: the batch, a sequence of documents
    idx,              \* main: how many files the for loop has taken
    success_count,    \* main
    written,          \* main: per file, the outline dumped to its .json, or None
    exit_code,        \* main: -1 while running, 1 for sys.exit(1), 0 for a normal return
    results,          \* history: per file taken, what extract_outline did and whether the dump succeeded
    detected_title,   \* the extractor's self._detected_title
    owner,            \* history: the run that last assigned self._detected_title, 0 if none
    pc,               \* per caller: where it stands
    doc,              \* per caller: the document of its run (pdf_path)
    run,              \* history: per caller, the number of its current run
    title_at_call,    \* history: per caller, self._detected_title when its run began
    pages_text,       \* per caller: extract_outline's local
    title,            \* per caller: extract_outline's local
    headings,         \* per caller: extract_headings' local
    cur,              \* per caller: the (page, line) the loops of extract_headings stand at
    ret,              \* per caller: what extract_outline returned or raised
    log,              \* history: per caller, the calls and writes of its current run, in order
    probe             \* a line and what the three functions return for it

vars ==
    << pdf_files, idx, success_count, written, exit_code, results, detected_title,
       owner, pc, doc, run, title_at_call, pages_text, title, headings, cur, ret,
       log, probe >>

main_vars == << pdf_files, idx, success_count, written, exit_code, results >>

NoRet == [kind |-> "none", title |-> << >>, outline |-> << >>]

NoDoc == Document(FALSE, << >>, FALSE, << >>, FALSE, None)

NoProbe ==
    [line |-> << >>, title |-> None, step |-> 0,
     noise |-> FALSE, heading |-> FALSE, level |-> "none"]

Event(ev, by) == [ev |-> ev, by |-> by]

----------------------------------------------------------------------------
(* extract_outline, one step per call it makes; t is the caller *)

\* Line 196, and the test of line 199.
ExtractPrimary(t) ==
    /\ pc[t] = "primary"
    /\ LET found == extract_text_pypdf2(doc[t])
       IN  /\ pages_text' = [pages_text EXCEPT ![t] = found]
           /\ pc' = [pc EXCEPT ![t] = IF found = << >> THEN "fallback" ELSE "title"]
    /\ log' = [log EXCEPT ![t] = Append(@, Event("primary", run[t]))]
    /\ UNCHANGED << main_vars, detected_title, owner, doc, run, title_at_call, title, headings,
                    cur, ret, probe >>

\* ExtractFallback without the raise of lines 203-204.
ExtractFallbackNoRaise(t) ==
    /\ pc[t] = "fallback"
    /\ pages_text' = [pages_text EXCEPT ![t] = extract_text_pdfminer(doc[t])]
    /\ pc' = [pc EXCEPT ![t] = "title"]
    /\ log' = [log EXCEPT ![t] = Append(@, Event("fallback", run[t]))]
    /\ UNCHANGED << main_vars, detected_title, owner, doc, run, title_at_call, title, headings,
                    cur, ret, probe >>

\* Lines 200-204: the fallback, and the ValueError when it finds nothing either.
ExtractFallback(t) ==
    /\ pc[t] = "fallback"
    /\ LET found == extract_text_pdfminer(doc[t])
       IN  /\ pages_text' = [pages_text EXCEPT ![t] = found]
           /\ pc' = [pc EXCEPT ![t] = IF found = << >> THEN "raised" ELSE "title"]
           /\ ret' = [ret EXCEPT ![t] =
                         IF found = << >>
                         THEN [kind |-> "error", title |-> << >>, outline |-> << >>]
                         ELSE @]
    /\ log' = [log EXCEPT ![t] = Append(@, Event("fallback", run[t]))]
    /\ UNCHANGED << main_vars, detected_title, owner, doc, run, title_at_call, title, headings,
                    cur, probe >>

\* `headings = []` of line 161, and what keeping the list across runs would do.
kept_headings(old) == old

fresh_headings(old) == << >>

\* ResolveTitle that assigns self._detected_title only while it is unset.
ResolveTitleKeepFirst(t) ==
    /\ pc[t] = "title"
    /\ LET resolved == resolve_title(doc[t], pages_text[t])
           store == ~Truthy(detected_title)
       IN  /\ title' = [title EXCEPT ![t] = resolved]
           /\ detected_title' = IF store THEN Some(resolved) ELSE detected_title
           /\ owner' = IF store THEN run[t] ELSE owner
           /\ log' = [log EXCEPT ![t] =
                         IF store THEN Append(@, Event("write_title", run[t])) ELSE @]
    /\ headings' = [headings EXCEPT ![t] = fresh_headings(@)]
    /\ cur' = [cur EXCEPT ![t] = << 1, 1 >>]
    /\ pc' = [pc EXCEPT ![t] = IF pages_text[t] = << >> THEN "return" ELSE "headings"]
    /\ UNCHANGED << main_vars, doc, run, title_at_call, pages_text, ret, probe >>

\* Lines 207-211, and the entry of extract_headings (lines 161-163): the
\* loop over pages has no turn when there is no page.
ResolveTitle(t) ==
    /\ pc[t] = "title"
    /\ LET resolved == resolve_title(doc[t], pages_text[t])
       IN  /\ title' = [title EXCEPT ![t] = resolved]
           /\ detected_title' = Some(resolved)
    /\ owner' = run[t]
    /\ log' = [log EXCEPT ![t] = Append(@, Event("write_title", run[t]))]
    /\ headings' = [headings EXCEPT ![t] = fresh_headings(@)]
    /\ cur' = [cur EXCEPT ![t] = << 1, 1 >>]
    /\ pc' = [pc EXCEPT ![t] = IF pages_text[t] = << >> THEN "return" ELSE "headings"]
    /\ UNCHANGED << main_vars, doc, run, title_at_call, pages_text, ret, probe >>

\* Lines 168-173, and the same with the record put in front.
with_heading_first(hs, line, page_num) ==
    << [level |-> determine_heading_level(line), text |-> line, page |-> page_num] >>
        \o hs

with_heading(hs, line, page_num) ==
    Append(hs, [level |-> determine_heading_level(line), text |-> line,
                page |-> page_num])

\* One turn of the inner loop of extract_headings (lines 165-173): the line
\* at cur is stripped, classified against the title the extractor holds now,
\* and recorded if accepted.
ClassifyLine(t) ==
    /\ pc[t] = "headings"
    /\ LET page  == pages_text[t][cur[t][1]]
           lines == Split(page[1], "\n")
           line  == Strip(lines[cur[t][2]])
           last_line == cur[t][2] = Len(lines)
           last_page == cur[t][1] = Len(pages_text[t])
       IN  /\ headings' = [headings EXCEPT ![t] =
                              IF is_heading(line, detected_title)
                              THEN with_heading(@, line, page[2])
                              ELSE @]
           /\ cur' = [cur EXCEPT ![t] =
                         IF last_line THEN << cur[t][1] + 1, 1 >>
                                      ELSE << cur[t][1], cur[t][2] + 1 >>]
           /\ pc' = [pc EXCEPT ![t] =
                        IF last_line /\ last_page THEN "return" ELSE "headings"]
    /\ log' = [log EXCEPT ![t] = Append(@, Event("is_heading", owner))]
    /\ UNCHANGED << main_vars, detected_title, owner, doc, run, title_at_call, pages_text, title,
                    ret, probe >>

\* Lines 216-219.
ReturnOutline(t) ==
    /\ pc[t] = "return"
    /\ ret' = [ret EXCEPT ![t] =
                  [kind |-> "outline", title |-> title[t], outline |-> headings[t]]]
    /\ pc' = [pc EXCEPT ![t] = "returned"]
    /\ UNCHANGED << main_vars, detected_title, owner, doc, run, title_at_call, pages_text, title,
                    headings, cur, log, probe >>

extract_outline(t) ==
    \/ ExtractPrimary(t)
    \/ ExtractFallback(t)
    \/ ResolveTitle(t)
    \/ ClassifyLine(t)
    \/ ReturnOutline(t)

----------------------------------------------------------------------------
(* main(): the batch loop over pdf_files, on one extractor (lines 241-274) *)

\* Lines 243-245.
NoPdfFiles ==
    /\ pc[1] = "main"
    /\ pdf_files = << >>
    /\ exit_code' = 1
    /\ pc' = [pc EXCEPT ![1] = "exit"]
    /\ UNCHANGED << pdf_files, idx, success_count, written, results, detected_title,
                    owner, doc, run, title_at_call, pages_text, title, headings, cur,
                    ret, log, probe >>

\* Lines 252-255: the loop takes the next file and calls extract_outline.
NextFile ==
    /\ pc[1] \in {"main", "for"}
    /\ idx < Len(pdf_files)
    /\ idx' = idx + 1
    /\ doc' = [doc EXCEPT ![1] = pdf_files[idx + 1]]
    /\ run' = [run EXCEPT ![1] = idx + 1]
    /\ title_at_call' = [title_at_call EXCEPT ![1] = detected_title]
    /\ pages_text' = [pages_text EXCEPT ![1] = << >>]
    /\ title' = [title EXCEPT ![1] = << >>]
    /\ cur' = [cur EXCEPT ![1] = << 1, 1 >>]
    /\ ret' = [ret EXCEPT ![1] = NoRet]
    /\ log' = [log EXCEPT ![1] = << >>]
    /\ pc' = [pc EXCEPT ![1] = "primary"]
    /\ UNCHANGED << pdf_files, success_count, written, exit_code, results,
                    detected_title, owner, headings, probe >>

\* Lines 257-266: the outline is dumped and counted; when opening or writing
\* the output file raises, the except clause of line 268 takes over and
\* nothing is counted.
WriteOutput ==
    /\ pc[1] = "returned"
    /\ \E write_ok \in BOOLEAN :
           /\ written' = IF write_ok THEN [written EXCEPT ![idx] = Some(ret[1])]
                                     ELSE written
           /\ success_count' = IF write_ok THEN success_count + 1 ELSE success_count
           /\ results' = Append(results, [ret |-> ret[1], wrote |-> write_ok])
    /\ pc' = [pc EXCEPT ![1] = "for"]
    /\ UNCHANGED << pdf_files, idx, exit_code, detected_title, owner, doc, run,
                    title_at_call, pages_text, title, headings, cur, ret, log, probe >>

\* Lines 268-269: the ValueError of extract_outline is caught and reported.
HandleFailure ==
    /\ pc[1] = "raised"
    /\ results' = Append(results, [ret |-> ret[1], wrote |-> FALSE])
    /\ pc' = [pc EXCEPT ![1] = "for"]
    /\ UNCHANGED << pdf_files, idx, success_count, written, exit_code, detected_title,
                    owner, doc, run, title_at_call, pages_text, title, headings, cur,
                    ret, log, probe >>

\* Finish that exits with failure as soon as one file failed.
FinishStrict ==
    /\ pc[1] = "for"
    /\ idx = Len(pdf_files)
    /\ exit_code' = IF success_count < Len(pdf_files) THEN 1 ELSE 0
    /\ pc' = [pc EXCEPT ![1] = "exit"]
    /\ UNCHANGED << pdf_files, idx, success_count, written, results, detected_title,
                    owner, doc, run, title_at_call, pages_text, title, headings, cur,
                    ret, log, probe >>

\* Lines 271-274.
Finish ==
    /\ pc[1] = "for"
    /\ idx = Len(pdf_files)
    /\ exit_code' = IF success_count = 0 THEN 1 ELSE 0
    /\ pc' = [pc EXCEPT ![1] = "exit"]
    /\ UNCHANGED << pdf_files, idx, success_count, written, results, detected_title,
                    owner, doc, run, title_at_call, pages_text, title, headings, cur,
                    ret, log, probe >>

\* After `extractor = PDFOutlineExtractor()` and `success_count = 0`.
Init ==
    /\ pdf_files \in Batches
    /\ idx = 0
    /\ success_count = 0
    /\ written = [i \in DOMAIN pdf_files |-> None]
    /\ exit_code = -1
    /\ results = << >>
    /\ detected_title = None
    /\ owner = 0
    /\ pc = [t \in Threads |-> IF t = 1 THEN "main" ELSE "unused"]
    /\ doc = [t \in Threads |-> NoDoc]
    /\ run = [t \in Threads |-> 0]
    /\ title_at_call = [t \in Threads |-> None]
    /\ pages_text = [t \in Threads |-> << >>]
    /\ title = [t \in Threads |-> << >>]
    /\ headings = [t \in Threads |-> << >>]
    /\ cur = [t \in Threads |-> << 1, 1 >>]
    /\ ret = [t \in Threads |-> NoRet]
    /\ log = [t \in Threads |-> << >>]
    /\ probe = NoProbe

Next ==
    \/ NoPdfFiles
    \/ NextFile
    \/ extract_outline(1)
    \/ WriteOutput
    \/ HandleFailure
    \/ Finish

Spec == Init /\ [][Next]_vars

----------------------------------------------------------------------------
(* Two runs of extract_outline on one extractor, their steps interleaved *)

InitShared ==
    /\ pdf_files = << >>
    /\ idx = 0
    /\ success_count = 0
    /\ written = << >>
    /\ exit_code = -1
    /\ results = << >>
    /\ detected_title = None
    /\ owner = 0
    /\ pc = [t \in Threads |-> "primary"]
    /\ doc \in [Threads -> CuratedDocs]
    /\ run = [t \in Threads |-> t]
    /\ title_at_call = [t \in Threads |-> None]
    /\ pages_text = [t \in Threads |-> << >>]
    /\ title = [t \in Threads |-> << >>]
    /\ headings = [t \in Threads |-> << >>]
    /\ cur = [t \in Threads |-> << 1, 1 >>]
    /\ ret = [t \in Threads |-> NoRet]
    /\ log = [t \in Threads |-> << >>]
    /\ probe = NoProbe

NextShared == \E t \in Threads : extract_outline(t)

SharedSpec == InitShared /\ [][NextShared]_vars

----------------------------------------------------------------------------
(* The three classification functions called on one line *)

InitLine ==
    /\ pdf_files = << >>
    /\ idx = 0
    /\ success_count = 0
    /\ written = << >>
    /\ exit_code = -1
    /\ results = << >>
    /\ detected_title = None
    /\ owner = 0
    /\ pc = [t \in Threads |-> "unused"]
    /\ doc = [t \in Threads |-> NoDoc]
    /\ run = [t \in Threads |-> 0]
    /\ title_at_call = [t \in Threads |-> None]
    /\ pages_text = [t \in Threads |-> << >>]
    /\ title = [t \in Threads |-> << >>]
    /\ headings = [t \in Threads |-> << >>]
    /\ cur = [t \in Threads |-> << 1, 1 >>]
    /\ ret = [t \in Threads |-> NoRet]
    /\ log = [t \in Threads |-> << >>]
    /\ \E line \in ProbeLines :
           \E held \in {None, Some(Strip(line)), Some(L_Study)} :
               probe = [NoProbe EXCEPT !.line = line, !.title = held]

probe_frame ==
    << main_vars, detected_title, owner, pc, doc, run, title_at_call, pages_text, title,
       headings, cur, ret, log >>

CallIsNoise ==
    /\ probe.step = 0
    /\ probe' = [probe EXCEPT !.noise = is_noise(probe.line), !.step = 1]
    /\ UNCHANGED probe_frame

\* probe.title stands for self._detected_title at the call.
CallIsHeading ==
    /\ probe.step = 1
    /\ probe' = [probe EXCEPT !.heading = is_heading(probe.line, probe.title),
                              !.step = 2]
    /\ UNCHANGED probe_frame

CallDetermineHeadingLevel ==
    /\ probe.step = 2
    /\ probe' = [probe EXCEPT !.level = determine_heading_level(probe.line),
                              !.step = 3]
    /\ UNCHANGED probe_frame

NextLine == CallIsNoise \/ CallIsHeading \/ CallDetermineHeadingLevel

LineSpec == InitLine /\ [][NextLine]_vars

----------------------------------------------------------------------------
(* What the properties are stated in *)

\* The lines of a page sequence in reading order, each trimmed and with the
\* number of its page.
RECURSIVE FlatLines(_)
FlatLines(pages) ==
    IF pages = << >>
    THEN << >>
    ELSE LET ls == Split(pages[1][1], "\n")
         IN  [i \in DOMAIN ls |-> [text |-> Strip(ls[i]), page |-> pages[1][2]]]
                 \o FlatLines(Tail(pages))

\* The k-th smallest member of a set of numbers.
Nth(S, k) == CHOOSE x \in S : Cardinality({y \in S : y <= x}) = k

\* The first collaborator yields no page: it raises, or every page is blank.
PrimaryYieldsNothing(d) ==
    \/ ~d.pypdf2.ok
    \/ \A i \in DOMAIN d.pypdf2.pages : AllIn(d.pypdf2.pages[i], WS)

\* The second collaborator yields no page: it raises, or its text is blank
\* (a form feed is whitespace).
FallbackYieldsNothing(d) ==
    \/ ~d.pdfminer.ok
    \/ AllIn(d.pdfminer.text, WS)

NoExtractableText(d) == PrimaryYieldsNothing(d) /\ FallbackYieldsNothing(d)

\* The metadata title is supplied, and trimmed it has more than 2 characters.
MetadataTitleUsable(d) ==
    /\ d.meta.ok
    /\ d.meta.title # None
    /\ Len(Strip(d.meta.title[1])) > 2

\* The places in fl of the lines a title may be taken from.
TitleCandidates(fl) ==
    {k \in DOMAIN fl : fl[k].text # << >> /\ Len(fl[k].text) > 3 /\ ~is_noise(fl[k].text)}

\* The places in fl of the lines is_heading accepts when the title is `held`.
AcceptedPlaces(fl, held) == {k \in DOMAIN fl : is_heading(fl[k].text, Some(held))}

\* The outline of a document processed by a run of its own, on an extractor
\* no other run touches: the title, and the accepted lines in reading order.
AloneOutline(d) ==
    LET primary == extract_text_pypdf2(d)
        pages == IF primary # << >> THEN primary ELSE extract_text_pdfminer(d)
        fl == FlatLines(pages)
        resolved == resolve_title(d, pages)
        acc == AcceptedPlaces(fl, resolved)
    IN  IF pages = << >>
        THEN [kind |-> "error", title |-> << >>, outline |-> << >>]
        ELSE [kind |-> "outline", title |-> resolved,
              outline |-> [n \in 1..Cardinality(acc) |->
                              [level |-> determine_heading_level(fl[Nth(acc, n)].text),
                               text |-> fl[Nth(acc, n)].text,
                               page |-> fl[Nth(acc, n)].page]]]

\* How often ev occurs in a log.
Count(lg, ev) == Cardinality({i \in DOMAIN lg : lg[i].ev = ev})

----------------------------------------------------------------------------
(* C1 *)

\* C1: no heading record of a returned Outline has the Outline's title as its
\* text, whatever the pages and whether the title came from the metadata or
\* from the content.
C1_TitleIsNoHeading ==
    \A t \in Threads :
        ret[t].kind = "outline" =>
            \A i \in DOMAIN ret[t].outline : ret[t].outline[i].text # ret[t].title

\* A returned outline with headings whose document holds the title as a line
\* that is_heading accepts when no title is held.
C1_Witness ==
    /\ ret[1].kind = "outline"
    /\ ret[1].outline # << >>
    /\ LET fl == FlatLines(pages_text[1])
       IN  \E k \in DOMAIN fl : fl[k].text = ret[1].title /\ is_heading(fl[k].text, None)

----------------------------------------------------------------------------
(* C2 *)

\* The line starts with digits, a dot, digits and a whitespace character.
TwoLevelPrefix(s) ==
    \E a \in 1..Len(s) : \E b \in (a + 3)..Len(s) :
        /\ RangeIn(s, 1, a, Digit)
        /\ s[a + 1] = "."
        /\ RangeIn(s, a + 2, b - 1, Digit)
        /\ s[b] \in WS

\* C2: for every line that starts with a two-level numbered prefix,
\* determine_heading_level returns H2, never H1 or H3, whatever follows.
C2_TwoLevelIsH2 ==
    (probe.step = 3 /\ TwoLevelPrefix(probe.line)) => probe.level = "H2"

----------------------------------------------------------------------------
(* C3 *)

\* C3: when two runs on one extractor are interleaved, each returns exactly
\* the Outline it returns when run alone.
C3_RunsIndependent ==
    \A t \in Threads :
        pc[t] \in {"returned", "raised"} => ret[t] = AloneOutline(doc[t])

----------------------------------------------------------------------------
(* C4 *)

\* Every is_heading call of the log read a title that the run `me` had
\* written, after the write.
ReadsOwnTitle(lg, me) ==
    \A i \in DOMAIN lg :
        lg[i].ev = "is_heading" =>
            /\ lg[i].by = me
            /\ \E j \in 1..(i - 1) : lg[j].ev = "write_title"

\* C4 as stated: every run of extract_outline, once over, has written the title
\* state exactly once, before its first is_heading call, and none of its
\* is_heading calls read a title state unset or written by an earlier run.
C4_EveryRunWritesTitleOnce ==
    \A t \in Threads :
        pc[t] \in {"returned", "raised"} =>
            /\ Count(log[t], "write_title") = 1
            /\ ReadsOwnTitle(log[t], run[t])

\* C4 as amended: a run that returns an Outline has written the title state
\* exactly once, before its first is_heading call; a run that fails for want
\* of text has written it not at all and called is_heading not at all; and at
\* every point of every run, each is_heading call made so far read the title
\* this run wrote.
C4_ReturningRunWritesTitleOnce ==
    \A t \in Threads :
        /\ ReadsOwnTitle(log[t], run[t])
        /\ Count(log[t], "write_title") <= 1
        /\ pc[t] = "returned" =>
               /\ Count(log[t], "write_title") = 1
               /\ Count(log[t], "is_heading") >= 1
        /\ pc[t] = "raised" =>
               /\ Count(log[t], "write_title") = 0
               /\ Count(log[t], "is_heading") = 0

\* The second run on the extractor has returned, after a first run that
\* left another title in the title state.
C4_Witness ==
    /\ run[1] = 2
    /\ pc[1] = "returned"
    /\ Truthy(title_at_call[1])
    /\ title_at_call[1] # detected_title
    /\ Count(log[1], "is_heading") >= 2

----------------------------------------------------------------------------
(* C5 *)

\* C5: a run ends in the no-extractable-text error exactly when the primary
\* and the fallback extractor both yield no page; the fallback is called only
\* after the primary yielded none; and a failing run returns no Outline,
\* resolves no title, classifies no line and leaves the title state as it
\* found it.
C5_FailsExactlyWithoutText ==
    \A t \in Threads :
        /\ pc[t] \in {"returned", "raised"} =>
               /\ pc[t] = "raised" <=> NoExtractableText(doc[t])
               /\ ret[t].kind = (IF pc[t] = "raised" THEN "error" ELSE "outline")
        /\ Count(log[t], "fallback") >= 1 => PrimaryYieldsNothing(doc[t])
        /\ Count(log[t], "fallback") <= 1
        /\ pc[t] = "raised" =>
               /\ ret[t] = [kind |-> "error", title |-> << >>, outline |-> << >>]
               /\ title[t] = << >>
               /\ Count(log[t], "write_title") = 0
               /\ Count(log[t], "is_heading") = 0
               /\ detected_title = title_at_call[t]

\* A run has failed on an extractor that holds the title of an earlier run.
C5_Witness ==
    /\ pc[1] = "raised"
    /\ run[1] >= 2
    /\ Truthy(detected_title)
    /\ Count(log[1], "fallback") = 1

----------------------------------------------------------------------------
(* C6 *)

\* C6: when main() has ended on a non-empty batch, every file was taken; a
\* file without extractable text has no output and is not counted; every
\* other file was processed to a returned Outline; success_count is the
\* number of outputs written; and the exit code is 1 exactly when no file
\* was processed successfully.
C6_BatchSkipsFailures ==
    (pc[1] = "exit" /\ pdf_files # << >>) =>
        /\ Len(results) = Len(pdf_files)
        /\ \A i \in DOMAIN pdf_files :
               IF NoExtractableText(pdf_files[i])
               THEN /\ results[i].ret.kind = "error"
                    /\ ~results[i].wrote
                    /\ written[i] = None
               ELSE /\ results[i].ret.kind = "outline"
                    /\ results[i].wrote <=> written[i] = Some(results[i].ret)
                    /\ ~results[i].wrote => written[i] = None
        /\ success_count = Cardinality({i \in DOMAIN results : results[i].wrote})
        /\ exit_code = 1 <=> \A i \in DOMAIN results : ~results[i].wrote
        /\ exit_code \in {0, 1}

\* main() has ended with success on a batch whose first file failed.
C6_Witness ==
    /\ pc[1] = "exit"
    /\ Len(pdf_files) >= 2
    /\ NoExtractableText(pdf_files[1])
    /\ \E i \in DOMAIN results : results[i].wrote
    /\ exit_code = 0

----------------------------------------------------------------------------
(* C7 *)

\* C7: a line for which is_noise returns true is one for which is_heading
\* returns false, whatever title the extractor holds and whichever heading
\* patterns the line matches.
C7_NoiseIsNoHeading ==
    probe.step >= 2 => (probe.noise => ~probe.heading)

\* A noise line that matches a heading pattern has been through both calls.
C7_Witness ==
    /\ probe.step >= 2
    /\ probe.noise
    /\ LET line == Strip(probe.line)
       IN  up_pat(line) \/ title_pat(line) \/ num_pat(line)

----------------------------------------------------------------------------
(* C8 *)

----------------------------------------------------------------------------
(* C9 *)

\* C9: two runs on the same document, on the one extractor of the batch and
\* whatever was processed between them, end the same way: the same title and
\* the same heading records in the same order, or the same failure.
C9_SameInputSameOutline ==
    \A i \in DOMAIN results : \A j \in DOMAIN results :
        pdf_files[i] = pdf_files[j] => results[i].ret = results[j].ret

\* A document was processed, then another with another title, then the
\* first again, all three to an Outline with headings.
C9_Witness ==
    /\ Len(results) = 3
    /\ pdf_files[1] = pdf_files[3]
    /\ \A i \in 1..3 : results[i].ret.kind = "outline" /\ results[i].ret.outline # << >>
    /\ results[1].ret.title # results[2].ret.title

----------------------------------------------------------------------------
(* C10 *)

\* C10: the heading records of a returned Outline are the lines is_heading
\* accepts under the run's title, one record for each accepted occurrence, in
\* reading order, each with the text of its line and the number of its page.
C10_ReadingOrder ==
    \A t \in Threads :
        ret[t].kind = "outline" =>
            LET fl == FlatLines(pages_text[t])
                acc == AcceptedPlaces(fl, ret[t].title)
                out == ret[t].outline
            IN  /\ Len(out) = Cardinality(acc)
                /\ \A n \in DOMAIN out :
                       /\ out[n].text = fl[Nth(acc, n)].text
                       /\ out[n].page = fl[Nth(acc, n)].page
                       /\ out[n].level \in {"H1", "H2", "H3"}

\* An Outline with headings from two pages, and a line between them that
\* was not accepted.
C10_Witness ==
    /\ ret[1].kind = "outline"
    /\ Len(ret[1].outline) >= 2
    /\ ret[1].outline[1].page # ret[1].outline[Len(ret[1].outline)].page
    /\ LET fl == FlatLines(pages_text[1])
           acc == AcceptedPlaces(fl, ret[1].title)
       IN  \E k \in DOMAIN fl : k \notin acc /\ \E a \in acc : \E b \in acc : a < k /\ k < b

============================================================================
